---- MODULE Spec2Model ----
(***************************************************************************)
(* novel_search: a CLI client for the Open Library API (src/main.rs).      *)
(* One run of the process is modelled: main dispatches on the parsed       *)
(* command, each search function sends one HTTP GET and awaits the reply,  *)
(* and a display function prints the parsed serde_json Value.              *)
(*                                                                         *)
(* A Rust panic (unwrap on None, index out of bounds, remainder by zero)   *)
(* ends the run with outcome "panic"; std::process::exit(1) ends it with   *)
(* outcome "exit1"; returning from main ends it with outcome "ok".         *)
(***************************************************************************)
EXTENDS Integers, Sequences, FiniteSets, TLC

VARIABLES
    pc,            \* position of main: which call it is about to make or awaits
    args,          \* the parsed command line (clap Args)
    inflight,      \* the HTTP requests sent and not yet answered
    sent,          \* the endpoints requested so far, in order
    api_response,  \* the serde_json Value main currently holds
    title,         \* the title returned by get_random_book_title
    rnd,           \* the random::<u32>() draws of get_random_book_title, as a sequence
    failed,        \* how the last request failed, "none" while none did
    out,           \* the lines printed to standard output, in order
    outcome        \* "running", "ok" (exit 0), "exit1", "panic"

vars == <<pc, args, inflight, sent, api_response, title, rnd, failed, out, outcome>>

(***************************************************************************)
(* Bounds of the model.                                                    *)
(***************************************************************************)
MaxDocs == 2      \* longest docs / works array of a name-search reply
MaxWorks == 2     \* longest works array of a subject listing
MaxItems == 2     \* longest items array of an ISBN reply

(***************************************************************************)
(* serde_json::Value, as far as the program looks at it.  A field the      *)
(* program indexes is Absent (Value::Null from indexing a missing key), a  *)
(* string, an array, or some other JSON value (number, object, ...).       *)
(***************************************************************************)
Absent == [k |-> "absent"]
NonStr == [k |-> "other"]
Str(s) == [k |-> "str", s |-> s]
Arr(a) == [k |-> "arr", a |-> a]

\* Value::as_str() is Some exactly for a JSON string
IsStr(v) == v.k = "str"
\* Value::as_array() is Some exactly for a JSON array
IsArr(v) == v.k = "arr"

SeqUpTo(S, n) == UNION {[1..m -> S] : m \in 0..n}

(***************************************************************************)
(* Printed lines.                                                          *)
(***************************************************************************)
Divider == [tag |-> "Divider"]
BlankLine == [tag |-> "Blank"]
FoundBooks(n) == [tag |-> "FoundBooks", n |-> n]
FoundMatches(n) == [tag |-> "FoundMatches", n |-> n]
TitleLine(t) == [tag |-> "Title", text |-> t]
AuthorLine(a) == [tag |-> "Author", text |-> a]
AuthorsLine(a) == [tag |-> "Authors", names |-> a]
IsbnLine(i) == [tag |-> "ISBN", text |-> i]
UrlLine(origin, path) == [tag |-> "URL", origin |-> origin, path |-> path]
ErrorLine(what, q) == [tag |-> "Error", what |-> what, query |-> q]
ErrorDetail == [tag |-> "ErrorDetail"]

(***************************************************************************)
(* JSON bodies.  Every object carries the four top-level keys the program  *)
(* indexes; a key the body lacks is Absent.  A record of `records` is      *)
(* looked up by its identifier; a missing identifier indexes to Null.      *)
(***************************************************************************)
Obj(docs, works, items, records) ==
    [docs |-> docs, works |-> works, items |-> items, records |-> records]

NullData == [title |-> Absent, authors |-> Absent, isbn_10 |-> Absent, isbn_13 |-> Absent]
NoRecords == [id \in {} |-> NullData]

\* the Value a variable holds before anything was assigned to it
NoValue == Obj(Absent, Absent, Absent, NoRecords)
NoTitle == ""

\* api_response["records"][from_record]["data"]
RecordData(resp, from_record) ==
    IF from_record \in DOMAIN resp.records THEN resp.records[from_record] ELSE NullData

(***************************************************************************)
(* display_books: the lines it prints and whether it panicked.             *)
(***************************************************************************)
Origin == "https://openlibrary.org"
Unknown == "Unknown"

\* doc["author_name"].as_array(), defaulting to ["Unknown"]
AuthorArray(doc) ==
    IF IsArr(doc.author_name) THEN doc.author_name.a ELSE <<Str(Unknown)>>

\* doc["isbn"].as_array(), defaulting to ["Unknown"]
IsbnArray(doc) ==
    IF IsArr(doc.isbn) THEN doc.isbn.a ELSE <<Str(Unknown)>>

\* one iteration of the loop of display_books
DisplayBooksDoc(doc) ==
    IF ~IsStr(doc.title)
    THEN [panic |-> FALSE, lines |-> <<>>]                 \* continue
    ELSE IF Len(AuthorArray(doc)) = 0
    THEN [panic |-> TRUE, lines |-> <<>>]                  \* author[0]
    ELSE IF ~IsStr(doc.key)
    THEN [panic |-> TRUE, lines |-> <<>>]                  \* key unwrap
    ELSE IF Len(IsbnArray(doc)) = 0
    THEN [panic |-> TRUE, lines |-> <<>>]                  \* isbn[0]
    ELSE IF ~IsStr(IsbnArray(doc)[1])
    THEN [panic |-> TRUE, lines |-> <<>>]                  \* isbn[0].as_str().unwrap()
    ELSE LET a == AuthorArray(doc)[1]
             author == IF IsStr(a) THEN a.s ELSE Unknown
         IN  [panic |-> FALSE,
              lines |-> << TitleLine(doc.title.s),
                           AuthorLine(author),
                           IsbnLine(IsbnArray(doc)[1].s),
                           UrlLine(Origin, doc.key.s),
                           Divider >>]

RECURSIVE DisplayBooksLoop(_, _)
DisplayBooksLoop(docs, i) ==
    IF i > Len(docs)
    THEN [panic |-> FALSE, lines |-> <<>>]
    ELSE LET r == DisplayBooksDoc(docs[i])
         IN  IF r.panic
             THEN [panic |-> TRUE, lines |-> <<>>]
             ELSE LET rest == DisplayBooksLoop(docs, i + 1)
                  IN  [panic |-> rest.panic, lines |-> r.lines \o rest.lines]

\* the array display_books iterates: "docs", else "works"
HasBooksArray(resp) == IsArr(resp.docs) \/ IsArr(resp.works)
BooksArray(resp) == IF IsArr(resp.docs) THEN resp.docs.a ELSE resp.works.a

display_books(resp) ==
    IF ~HasBooksArray(resp)
    THEN [panic |-> TRUE, lines |-> <<>>]
    ELSE LET docs == BooksArray(resp)
             loop == DisplayBooksLoop(docs, 1)
         IN  [panic |-> loop.panic,
              lines |-> <<FoundBooks(Len(docs)), Divider, Divider>> \o loop.lines
                        \o (IF loop.panic THEN <<>> ELSE <<Divider>>)]

(***************************************************************************)
(* display_subject_titles                                                  *)
(***************************************************************************)
RECURSIVE SubjectTitlesLoop(_, _)
SubjectTitlesLoop(works, i) ==
    IF i > Len(works)
    THEN [panic |-> FALSE, lines |-> <<>>]
    ELSE IF ~IsStr(works[i].title)
    THEN [panic |-> TRUE, lines |-> <<>>]
    ELSE LET rest == SubjectTitlesLoop(works, i + 1)
         IN  [panic |-> rest.panic,
              lines |-> <<TitleLine(works[i].title.s), BlankLine>> \o rest.lines]

display_subject_titles(resp) ==
    IF ~IsArr(resp.works)
    THEN [panic |-> TRUE, lines |-> <<>>]
    ELSE SubjectTitlesLoop(resp.works.a, 1)

(***************************************************************************)
(* display_isbn_books                                                      *)
(***************************************************************************)
\* the precedence the wrong way round: isbn_13 first
IsbnOf13First(data) ==
    IF IsStr(data.isbn_13) THEN data.isbn_13.s
    ELSE IF IsStr(data.isbn_10) THEN data.isbn_10.s
    ELSE "Unknown"

\* identifiers.isbn_10, else identifiers.isbn_13, else "Unknown"
IsbnOf(data) ==
    IF IsStr(data.isbn_10) THEN data.isbn_10.s
    ELSE IF IsStr(data.isbn_13) THEN data.isbn_13.s
    ELSE Unknown

\* the names of the authors, in order (each name is unwrapped)
AuthorNames(authors) == [j \in 1..Len(authors) |-> authors[j].name.s]

DisplayIsbnItem(resp, item) ==
    IF ~IsStr(item.itemURL) \/ ~IsStr(item.fromRecord)
    THEN [panic |-> TRUE, lines |-> <<>>]
    ELSE LET data == RecordData(resp, item.fromRecord.s)
         IN  IF ~IsStr(data.title) \/ ~IsArr(data.authors)
             THEN [panic |-> TRUE, lines |-> <<>>]
             ELSE IF \E j \in 1..Len(data.authors.a) : ~IsStr(data.authors.a[j].name)
             THEN [panic |-> TRUE, lines |-> <<>>]
             ELSE [panic |-> FALSE,
                   lines |-> << TitleLine(data.title.s),
                                AuthorsLine(AuthorNames(data.authors.a)),
                                IsbnLine(IsbnOf(data)),
                                UrlLine("", item.itemURL.s),
                                Divider >>]

RECURSIVE DisplayIsbnLoop(_, _, _)
DisplayIsbnLoop(resp, items, i) ==
    IF i > Len(items)
    THEN [panic |-> FALSE, lines |-> <<>>]
    ELSE LET r == DisplayIsbnItem(resp, items[i])
         IN  IF r.panic
             THEN [panic |-> TRUE, lines |-> <<>>]
             ELSE LET rest == DisplayIsbnLoop(resp, items, i + 1)
                  IN  [panic |-> rest.panic, lines |-> r.lines \o rest.lines]

display_isbn_books(resp) ==
    IF ~IsArr(resp.items)
    THEN [panic |-> TRUE, lines |-> <<>>]
    ELSE LET items == resp.items.a
             loop == DisplayIsbnLoop(resp, items, 1)
         IN  [panic |-> loop.panic,
              lines |-> <<FoundMatches(Len(items)), Divider, Divider>> \o loop.lines
                        \o (IF loop.panic THEN <<>> ELSE <<Divider>>)]

(***************************************************************************)
(* get_random_book_title                                                   *)
(***************************************************************************)
\* books.len() as u32: the cast keeps every length below 2^32, and the lengths
\* of the model (and TLC's integers) stay below 2^31
LenAsU32(n) == n

\* the modulus one short: the last element is never chosen
RandomIndexShort(r, n) == IF n > 1 THEN r % (n - 1) ELSE 0

\* (random::<u32>() % books.len() as u32) as usize; the caller excludes a zero divisor
RandomIndex(r, n) == r % LenAsU32(n)

get_random_book_title(resp, r) ==
    IF ~IsArr(resp.works)
    THEN [panic |-> TRUE, title |-> NoTitle]                \* unwrap on None
    ELSE LET books == resp.works.a
         IN  IF LenAsU32(Len(books)) = 0
             THEN [panic |-> TRUE, title |-> NoTitle]       \* remainder by zero
             ELSE LET book == books[RandomIndex(r, Len(books)) + 1]
                  IN  IF ~IsStr(book.title)
                      THEN [panic |-> TRUE, title |-> NoTitle]
                      ELSE [panic |-> FALSE, title |-> book.title.s]

(***************************************************************************)
(* Request URLs (format! in each search function).                         *)
(***************************************************************************)
Queries == {"Horror"}
Limits == {1, 2}

\* str::to_lowercase on the queries of the model
ToLowercase(s) == IF s = "Horror" THEN "horror" ELSE s

NameUrl(name, limit) ==
    [endpoint |-> "search.json", query |-> name, limit |-> limit]
IsbnUrl(isbn) ==
    [endpoint |-> "api/volumes/brief/isbn", query |-> isbn]
SubjectUrl(subject, limit) ==
    [endpoint |-> "subjects", query |-> ToLowercase(subject), limit |-> limit]
RandomUrl(genre, limit, offset) ==
    [endpoint |-> "subjects", query |-> genre, limit |-> limit, offset |-> offset]

\* the second request sent with the default limit of a search
RandomSearchUrlDefaultLimit(t) == NameUrl(t, 2)

\* the second request of the Random command: search_name(&title, 1)
RandomSearchUrl(t) == NameUrl(t, 1)

U8Max == 255
U8Samples == {0, U8Max}
\* draws of random::<u32>(): small ones, and large ones up to TLC's largest integer
U32Samples == (0..(MaxWorks + 1)) \cup {65535, 2147483646, 2147483647}

(***************************************************************************)
(* What the server may answer.                                             *)
(***************************************************************************)
\* reqwest::get fails; reading the body fails; the body is not JSON
Failures == {"transport_err", "body_err", "not_json"}

\* the documents of a name-search reply: every field well-formed, absent or
\* (for the arrays) empty or of a non-string element
NameDocs ==
    [title : {Absent, Str("T1")},
     author_name : {Absent, Arr(<<>>), Arr(<<Str("A1"), Str("A2")>>), Arr(<<NonStr>>)},
     isbn : {Absent, Arr(<<>>), Arr(<<Str("I1"), Str("I2")>>), Arr(<<NonStr>>)},
     key : {Absent, Str("/works/K1")}]

\* a name-search body: the documents under "docs" or under "works"
NameBody(key, d) ==
    IF key = "docs" THEN Obj(Arr(d), Absent, Absent, NoRecords)
    ELSE Obj(Absent, Arr(d), Absent, NoRecords)

ResultKeys == {"docs", "works"}

Works == [title : {Absent, Str("T1"), Str("T2")}]

SubjectBodies ==
    {Obj(Absent, Arr(w), Absent, NoRecords) : w \in SeqUpTo(Works, MaxWorks)}
    \cup {NoValue}

IsbnItems == [itemURL : {Absent, Str("U1")}, fromRecord : {Absent, Str("R1"), Str("R2")}]

IsbnData ==
    [title : {Absent, Str("T1")},
     authors : {Absent, Arr(<<>>), Arr(<<[name |-> Str("A1")], [name |-> Str("A2")]>>),
                Arr(<<[name |-> Absent]>>)},
     isbn_10 : {Absent, Str("I10"), NonStr},
     isbn_13 : {Absent, Str("I13"), NonStr}]

IsbnRecords == {NoRecords} \cup {[id \in {"R1"} |-> d] : d \in IsbnData}

IsbnBodies ==
    {Obj(Absent, Absent, Arr(i), r) : i \in SeqUpTo(IsbnItems, MaxItems), r \in IsbnRecords}
    \cup {Obj(Absent, Absent, Absent, r) : r \in IsbnRecords}

(***************************************************************************)
(* The run of main.                                                        *)
(***************************************************************************)
SearchArgs ==
    [cmd : {"search"}, search_type : {"Name", "ISBN", "Subject"},
     data : Queries, limit : Limits]
RandomArgs == [cmd : {"random"}, genre : Queries]

Init ==
    /\ pc = "main"
    /\ args \in SearchArgs \cup RandomArgs
    /\ inflight = <<>>
    /\ sent = <<>>
    /\ api_response = NoValue
    /\ title = NoTitle
    /\ rnd = <<>>
    /\ failed = "none"
    /\ out = <<>>
    /\ outcome = "running"

\* reqwest::get(&url): the request goes out and the caller awaits the reply
Send(url, await) ==
    /\ inflight' = Append(inflight, url)
    /\ sent' = Append(sent, url.endpoint)
    /\ pc' = await

\* println! of the lines, then std::process::exit(1)
Exit1(f, lines) ==
    /\ failed' = f
    /\ inflight' = <<>>
    /\ out' = out \o lines
    /\ outcome' = "exit1"
    /\ pc' = "done"

\* an unwrap fails before anything is printed
Panic(f) ==
    /\ failed' = f
    /\ inflight' = <<>>
    /\ out' = out
    /\ outcome' = "panic"
    /\ pc' = "done"

\* the function returns the parsed body to main
Return(body, next) ==
    /\ api_response' = body
    /\ inflight' = <<>>
    /\ pc' = next

\* a display function ran as the last statement of main: the run ends
Finish(r) ==
    /\ out' = out \o r.lines
    /\ outcome' = IF r.panic THEN "panic" ELSE "ok"
    /\ pc' = "done"

\* ---- search_name -------------------------------------------------------
MainSearchName ==
    /\ pc = "main" /\ args.cmd = "search" /\ args.search_type = "Name"
    /\ Send(NameUrl(args.data, args.limit), "search_name")
    /\ UNCHANGED <<args, api_response, title, rnd, failed, out, outcome>>

\* Err of reqwest::get, or Err of response.json() (body unread or not JSON)
SearchNameFail ==
    /\ pc = "search_name"
    /\ \E f \in Failures : Exit1(f, <<ErrorLine("name", inflight[1].query)>>)
    /\ UNCHANGED <<args, sent, api_response, title, rnd>>

SearchNameReturn ==
    /\ pc = "search_name"
    /\ \/ \E key \in ResultKeys, m \in 0..MaxDocs :
             \E d \in [1..m -> NameDocs] : Return(NameBody(key, d), "display_books")
       \/ Return(NoValue, "display_books")         \* a body with neither key
    /\ UNCHANGED <<args, sent, title, rnd, failed, out, outcome>>

DisplayBooks ==
    /\ pc = "display_books"
    /\ Finish(display_books(api_response))
    /\ UNCHANGED <<args, inflight, sent, api_response, title, rnd, failed>>

\* ---- search_isbn -------------------------------------------------------
MainSearchIsbn ==
    /\ pc = "main" /\ args.cmd = "search" /\ args.search_type = "ISBN"
    /\ Send(IsbnUrl(args.data), "search_isbn")
    /\ UNCHANGED <<args, api_response, title, rnd, failed, out, outcome>>

SearchIsbnFail ==
    /\ pc = "search_isbn"
    /\ \E f \in Failures : Exit1(f, <<ErrorLine("ISBN", inflight[1].query)>>)
    /\ UNCHANGED <<args, sent, api_response, title, rnd>>

SearchIsbnReturn ==
    /\ pc = "search_isbn"
    /\ \E body \in IsbnBodies : Return(body, "display_isbn_books")
    /\ UNCHANGED <<args, sent, title, rnd, failed, out, outcome>>

DisplayIsbnBooks ==
    /\ pc = "display_isbn_books"
    /\ Finish(display_isbn_books(api_response))
    /\ UNCHANGED <<args, inflight, sent, api_response, title, rnd, failed>>

\* ---- search_subject ----------------------------------------------------
MainSearchSubject ==
    /\ pc = "main" /\ args.cmd = "search" /\ args.search_type = "Subject"
    /\ Send(SubjectUrl(args.data, args.limit), "search_subject")
    /\ UNCHANGED <<args, api_response, title, rnd, failed, out, outcome>>

\* Err of reqwest::get: one line; text.unwrap() on an unread body: panic;
\* Err of serde_json::from_str: the message and the parser's error
SearchSubjectFail ==
    /\ pc = "search_subject"
    /\ \/ Exit1("transport_err", <<ErrorLine("subject", args.data)>>)
       \/ Panic("body_err")
       \/ Exit1("not_json", <<ErrorLine("subject", args.data), ErrorDetail>>)
    /\ UNCHANGED <<args, sent, api_response, title, rnd>>

SearchSubjectReturn ==
    /\ pc = "search_subject"
    /\ \E body \in SubjectBodies : Return(body, "display_subject_titles")
    /\ UNCHANGED <<args, sent, title, rnd, failed, out, outcome>>

DisplaySubjectTitles ==
    /\ pc = "display_subject_titles"
    /\ Finish(display_subject_titles(api_response))
    /\ UNCHANGED <<args, inflight, sent, api_response, title, rnd, failed>>

\* ---- Random: random_book, get_random_book_title, search_name ------------
MainRandomBook ==
    /\ pc = "main" /\ args.cmd = "random"
    /\ \E limit \in U8Samples, offset \in U8Samples :
          Send(RandomUrl(args.genre, limit, offset), "random_book")
    /\ UNCHANGED <<args, api_response, title, rnd, failed, out, outcome>>

RandomBookFail ==
    /\ pc = "random_book"
    /\ \/ Exit1("transport_err", <<ErrorLine("genre", args.genre)>>)
       \/ Panic("body_err")
       \/ Exit1("not_json", <<ErrorLine("genre", args.genre)>>)
    /\ UNCHANGED <<args, sent, api_response, title, rnd>>

RandomBookReturn ==
    /\ pc = "random_book"
    /\ \E body \in SubjectBodies : Return(body, "get_random_book_title")
    /\ UNCHANGED <<args, sent, title, rnd, failed, out, outcome>>

\* let title = get_random_book_title(api_response)
GetRandomBookTitle ==
    /\ pc = "get_random_book_title"
    /\ \E r \in U32Samples :
          LET res == get_random_book_title(api_response, r)
          IN  /\ rnd' = <<r>>
              /\ IF res.panic
                 THEN /\ outcome' = "panic" /\ pc' = "done" /\ title' = title
                 ELSE /\ outcome' = outcome /\ pc' = "selected" /\ title' = res.title
    /\ UNCHANGED <<args, inflight, sent, api_response, failed, out>>

\* let api_response = search_name(&title, 1): the listing and the draw,
\* dropped when get_random_book_title returned, are gone
RandomSearchName ==
    /\ pc = "selected"
    /\ Send(RandomSearchUrl(title), "search_name")
    /\ api_response' = NoValue
    /\ rnd' = <<>>
    /\ UNCHANGED <<args, title, failed, out, outcome>>

Next ==
    \/ MainSearchName \/ SearchNameFail \/ SearchNameReturn \/ DisplayBooks
    \/ MainSearchIsbn \/ SearchIsbnFail \/ SearchIsbnReturn \/ DisplayIsbnBooks
    \/ MainSearchSubject \/ SearchSubjectFail \/ SearchSubjectReturn
    \/ DisplaySubjectTitles
    \/ MainRandomBook \/ RandomBookFail \/ RandomBookReturn
    \/ GetRandomBookTitle \/ RandomSearchName

Spec == Init /\ [][Next]_vars

(***************************************************************************)
(* Vocabulary of the properties.                                           *)
(***************************************************************************)
IsTitleLine(l) == l.tag = "Title"
IsAuthorLine(l) == l.tag = "Author"
IsIsbnLine(l) == l.tag = "ISBN"
IsErrorLine(l) == l.tag \in {"Error", "ErrorDetail"}

TextOf(lines) == [j \in 1..Len(lines) |-> lines[j].text]

IsRandom == args.cmd = "random"
IsSearch(type) == args.cmd = "search" /\ args.search_type = type

\* the run is over and display_books was called on api_response
BooksDisplayed ==
    /\ pc = "done" /\ failed = "none"
    /\ IsSearch("Name") \/ (IsRandom /\ Len(sent) = 2)

\* the run is over and display_isbn_books was called on api_response
IsbnDisplayed == pc = "done" /\ failed = "none" /\ IsSearch("ISBN")

\* the run is over and display_subject_titles was called on api_response
SubjectDisplayed == pc = "done" /\ failed = "none" /\ IsSearch("Subject")

\* the run is over and get_random_book_title was the last call on api_response
SelectionEnded ==
    pc = "done" /\ failed = "none" /\ IsRandom /\ Len(sent) = 1 /\ rnd # <<>>

HasTitle(d) == IsStr(d.title)
Titled(docs) == {j \in 1..Len(docs) : HasTitle(docs[j])}

\* a record that has every field its display function requires
WellFormedBook(d) ==
    /\ IsStr(d.title) /\ IsStr(d.key)
    /\ IsArr(d.author_name) => Len(d.author_name.a) > 0
    /\ IsArr(d.isbn) => (Len(d.isbn.a) > 0 /\ IsStr(d.isbn.a[1]))
WellFormedItem(resp, it) ==
    /\ IsStr(it.itemURL) /\ IsStr(it.fromRecord)
    /\ LET data == RecordData(resp, it.fromRecord.s)
       IN  /\ IsStr(data.title) /\ IsArr(data.authors)
           /\ \A j \in 1..Len(data.authors.a) : IsStr(data.authors.a[j].name)
WellFormedWork(w) == IsStr(w.title)

(***************************************************************************)
(* C1.  In the Random command, a subject listing whose works array is      *)
(* empty ends the command with the error message and exit code 1, never    *)
(* with a crash of get_random_book_title.                                  *)
(***************************************************************************)
C1_EmptyListingExits1 ==
    (SelectionEnded /\ IsArr(api_response.works) /\ Len(api_response.works.a) = 0)
        => (outcome = "exit1" /\ Len(out) = 1 /\ out[1].tag = "Error")

(***************************************************************************)
(* C2.  Every unrecoverable top-level failure (the transport fails, the    *)
(* body is not JSON, the results array is missing) ends the run with exit  *)
(* code 1 after exactly one printed error line, and never with a panic.    *)
(***************************************************************************)
ResultsArrayMissing ==
    \/ BooksDisplayed /\ ~HasBooksArray(api_response)
    \/ IsbnDisplayed /\ ~IsArr(api_response.items)
    \/ SubjectDisplayed /\ ~IsArr(api_response.works)
    \/ SelectionEnded /\ ~IsArr(api_response.works)

TopLevelFailure ==
    pc = "done" /\ (failed \in {"transport_err", "not_json"} \/ ResultsArrayMissing)

C2_FailureExits1WithOneLine ==
    TopLevelFailure => (outcome = "exit1" /\ Len(out) = 1 /\ out[1].tag = "Error")

(***************************************************************************)
(* C3.  In a batch of several records, a record that lacks a required      *)
(* field is skipped alone: every well-formed record of the batch is        *)
(* rendered and the command does not abort.                                *)
(***************************************************************************)
C3_OnlyTheBadRecordIsSkipped ==
    /\ (BooksDisplayed /\ HasBooksArray(api_response)
          /\ Len(BooksArray(api_response)) >= 2) =>
          LET docs == BooksArray(api_response)
          IN  /\ outcome = "ok"
              /\ Len(SelectSeq(out, IsTitleLine))
                    = Cardinality({j \in 1..Len(docs) : WellFormedBook(docs[j])})
    /\ (IsbnDisplayed /\ IsArr(api_response.items)
          /\ Len(api_response.items.a) >= 2) =>
          LET items == api_response.items.a
          IN  /\ outcome = "ok"
              /\ Len(SelectSeq(out, IsTitleLine))
                    = Cardinality({j \in 1..Len(items) :
                                      WellFormedItem(api_response, items[j])})
    /\ (SubjectDisplayed /\ IsArr(api_response.works)
          /\ Len(api_response.works.a) >= 2) =>
          LET works == api_response.works.a
          IN  /\ outcome = "ok"
              /\ Len(SelectSeq(out, IsTitleLine))
                    = Cardinality({j \in 1..Len(works) : WellFormedWork(works[j])})

(***************************************************************************)
(* C4.  The N of "Found N books" is the number of documents that have a    *)
(* title, not the length of the results array.                             *)
(***************************************************************************)
C4_HeaderCountsTitledDocs ==
    (BooksDisplayed /\ HasBooksArray(api_response)) =>
        /\ out[1].tag = "FoundBooks"
        /\ out[1].n = Cardinality(Titled(BooksArray(api_response)))

(***************************************************************************)
(* C5.  When each of the N documents has a title, whatever its other       *)
(* fields, display_books prints "Found N books" and exactly N record       *)
(* blocks and completes.                                                   *)
(***************************************************************************)
C5_AllTitledAllRendered ==
    (/\ BooksDisplayed /\ HasBooksArray(api_response)
     /\ \A j \in 1..Len(BooksArray(api_response)) : HasTitle(BooksArray(api_response)[j]))
        => /\ outcome = "ok"
           /\ out[1] = FoundBooks(Len(BooksArray(api_response)))
           /\ Len(SelectSeq(out, IsTitleLine)) = Len(BooksArray(api_response))

(***************************************************************************)
(* C6.  In the Random command, a second-stage name search that returns     *)
(* zero documents ends the command with exit code 1, not with success.     *)
(***************************************************************************)
C6_EmptySecondStageExits1 ==
    (/\ BooksDisplayed /\ IsRandom
     /\ HasBooksArray(api_response) /\ Len(BooksArray(api_response)) = 0)
        => outcome = "exit1"

(***************************************************************************)
(* C7.  For a document with a title the printed author is the first        *)
(* element of author_name, or "Unknown" when author_name is absent or      *)
(* empty; likewise the printed ISBN for isbn; an absent or empty array     *)
(* never makes the record fail.  (Stated on documents that have their key  *)
(* and whose array elements are strings.)                                  *)
(***************************************************************************)
FirstOrUnknown(v) == IF IsArr(v) /\ Len(v.a) > 0 THEN v.a[1].s ELSE Unknown

OnlyStrings(v) == IsArr(v) => \A j \in 1..Len(v.a) : IsStr(v.a[j])

C7_AbsentOrEmptyArrayPrintsUnknown ==
    (/\ BooksDisplayed /\ HasBooksArray(api_response)
     /\ \A j \in 1..Len(BooksArray(api_response)) :
           LET d == BooksArray(api_response)[j]
           IN  HasTitle(d) /\ IsStr(d.key) /\ OnlyStrings(d.author_name)
               /\ OnlyStrings(d.isbn))
        => LET docs == BooksArray(api_response)
           IN  /\ outcome = "ok"
               /\ TextOf(SelectSeq(out, IsAuthorLine))
                     = [j \in 1..Len(docs) |-> FirstOrUnknown(docs[j].author_name)]
               /\ TextOf(SelectSeq(out, IsIsbnLine))
                     = [j \in 1..Len(docs) |-> FirstOrUnknown(docs[j].isbn)]

(***************************************************************************)
(* C8.  For every record display_isbn_books prints, the printed ISBN is    *)
(* isbn_10 whenever isbn_10 is present, isbn_13 when only isbn_13 is       *)
(* present, and "Unknown" when neither is.  A field is present when the    *)
(* record holds a string under it, which is how the program reads it.      *)
(***************************************************************************)
Present(v) == IsStr(v)

ExpectedIsbn(data) ==
    CASE Present(data.isbn_10) -> data.isbn_10.s
      [] ~Present(data.isbn_10) /\ Present(data.isbn_13) -> data.isbn_13.s
      [] ~Present(data.isbn_10) /\ ~Present(data.isbn_13) -> Unknown

\* a failing item ends the run, so the j-th block printed is that of the j-th item
C8_Isbn10BeforeIsbn13 ==
    (IsbnDisplayed /\ IsArr(api_response.items)) =>
        LET printed == SelectSeq(out, IsIsbnLine)
            items == api_response.items.a
        IN  /\ Len(printed) <= Len(items)
            /\ outcome = "ok" => Len(printed) = Len(items)
            /\ \A j \in 1..Len(printed) :
                  printed[j].text
                     = ExpectedIsbn(RecordData(api_response, items[j].fromRecord.s))

\* a record holding both identifiers was printed
C8_Witness ==
    /\ IsbnDisplayed /\ IsArr(api_response.items) /\ outcome = "ok"
    /\ Len(api_response.items.a) = 2
    /\ LET data == RecordData(api_response, api_response.items.a[1].fromRecord.s)
       IN  Present(data.isbn_10) /\ Present(data.isbn_13)
    /\ SelectSeq(out, IsIsbnLine)[1].text = "I10"

(***************************************************************************)
(* C9.  The Random command sends at most two requests, one at a time: the  *)
(* subject listing first; the second only after the first reply arrived    *)
(* and a title was selected, and it is the name search for exactly that    *)
(* title with limit 1; nothing is rendered before the second reply; after  *)
(* a failed request nothing more is sent.                                  *)
(***************************************************************************)
RandomInv ==
    /\ Len(sent) <= 2
    /\ Len(inflight) <= 1
    /\ Len(sent) >= 1 => sent[1] = "subjects"
    /\ Len(sent) = 2 => sent[2] = "search.json"
    /\ (Len(sent) = 2 /\ inflight # <<>>) =>
          inflight = <<[endpoint |-> "search.json", query |-> title, limit |-> 1]>>
    /\ (\E j \in 1..Len(out) : ~IsErrorLine(out[j])) =>
          (Len(sent) = 2 /\ inflight = <<>> /\ failed = "none")
    /\ failed # "none" => (pc = "done" /\ inflight = <<>>)

RandomStep ==
    /\ sent' # sent =>
          /\ inflight = <<>> /\ failed = "none" /\ outcome = "running"
          /\ Len(sent') = Len(sent) + 1
    /\ Len(sent') = 2 /\ Len(sent) = 1 => (pc = "selected" /\ title' = title)
    /\ pc = "done" => UNCHANGED vars

C9_RandomRequestsInSequence ==
    [](IsRandom => RandomInv) /\ [][IsRandom => RandomStep]_vars

\* a Random run that sent both requests and rendered a record
C9_Witness ==
    /\ IsRandom /\ pc = "done" /\ outcome = "ok"
    /\ sent = <<"subjects", "search.json">>
    /\ Len(SelectSeq(out, IsTitleLine)) = 1

(***************************************************************************)
(* C10.  For a listing of length L >= 1 and a draw r, the index chosen by  *)
(* get_random_book_title is r mod L, which lies in [0, L): the title       *)
(* returned is that of the element at r mod L, and of the single element   *)
(* when L = 1; the function fails only when that element has no title.     *)
(***************************************************************************)
C10_IndexIsDrawModLength ==
    /\ pc = "selected" =>
          /\ IsArr(api_response.works) /\ Len(rnd) = 1
          /\ LET books == api_response.works.a
                 L == Len(books)
                 i == rnd[1] % L
             IN  /\ L >= 1
                 /\ i \in 0..(L - 1)
                 /\ IsStr(books[i + 1].title)
                 /\ title = books[i + 1].title.s
                 /\ L = 1 => title = books[1].title.s
    /\ (SelectionEnded /\ IsArr(api_response.works) /\ Len(api_response.works.a) >= 1) =>
          LET books == api_response.works.a
          IN  outcome = "panic" /\ ~IsStr(books[(rnd[1] % Len(books)) + 1].title)

\* a draw larger than the listing selected its second element
C10_Witness ==
    /\ pc = "selected"
    /\ Len(api_response.works.a) = 2
    /\ rnd[1] > 2 /\ rnd[1] % 2 = 1
    /\ api_response.works.a[1].title # api_response.works.a[2].title
    /\ title = api_response.works.a[2].title.s

====
